---- MODULE Spec2Model ----
(***************************************************************************)
(* A model of the CronExecutionCleaner controller: the helpers of the      *)
(* controller package (validateSpec, filterJobsByOwner, classifyJobs,      *)
(* detectStuckJobs, excessJobs, deleteJobs, setCondition) and the          *)
(* Reconcile handler that sequences them.                                  *)
(*                                                                         *)
(* Durations and instants are counted in half seconds, so that a duration  *)
(* below time.Second (500ms) and time.Second itself are both expressible.  *)
(* A *metav1.Time is a sequence: <<>> for nil, <<t>> for a set start time. *)
(***************************************************************************)
EXTENDS Integers, Sequences, FiniteSets, TLC

VARIABLES
    jobObjs,      \* the batchv1.Job objects of the run: name -> Job
    present,      \* names of the Jobs the API server currently holds
    stored,       \* the persisted CronExecutionCleaner
    cached,       \* the copy of it the client's cache serves to r.Get
    clock,        \* wall clock (time.Now / metav1.Now)
    pc,           \* position of the Reconcile invocation in flight
    cleaner,      \* Reconcile's local copy of the CronExecutionCleaner
    jobList,      \* Reconcile's local jobList.Items
    deletedCount, \* Reconcile's local deletedCount
    eval,         \* the groups and doomed lists the invocation computed
    deleteLog,    \* the r.Delete calls of the invocation, in order
    apiLog,       \* the other client calls of the invocation, in order
    result,       \* what the last invocation returned: [requeueAfter, err]
    fnIn,         \* helper specifications: the arguments of the helper
    fnOut,        \* helper specifications: what the helper returned
    fnPc,         \* helper specifications: "ready", "done", "again"
    firstRun,     \* what a completed cycle left, for the cycle that follows
    other         \* a second policy and its invocation, while not running

vars == <<jobObjs, present, stored, cached, clock, pc, cleaner, jobList,
          deletedCount, eval, deleteLog, apiLog, result, fnIn, fnOut, fnPc,
          firstRun, other>>

reconcileVars == <<jobObjs, present, stored, cached, clock, pc, cleaner,
                   jobList, deletedCount, eval, deleteLog, apiLog, result>>

fnVars == <<fnIn, fnOut, fnPc>>

auxVars == <<firstRun, other>>

----------------------------------------------------------------------------
(* Bounds of the model.                                                    *)

MaxJobs == 2        \* Jobs in the cluster of a Reconcile run
MaxLen == 3         \* length of the Job slices handed to a helper
MaxClassifyLen == 2 \* length of the Job slices handed to classifyJobs
MaxCount == 1       \* largest value of a Job status counter
MaxStart == 2       \* latest start time of a Job
MaxTime == 3        \* latest reading of the clock
MaxVersion == 3     \* resourceVersion up to which the policy is edited

(* time.Second in half seconds.                                            *)
Second == 2

----------------------------------------------------------------------------
(* Sequences.                                                              *)

Range(s) == {s[i] : i \in 1..Len(s)}

Names(jobs) == {jobs[i].name : i \in 1..Len(jobs)}

SeqsUpTo(S, n) == UNION {[1..k -> S] : k \in 0..n}

(* Every arrangement of the elements of the slice s.                       *)
Arrangements(s) ==
    LET n == Len(s)
        bij == {p \in [1..n -> 1..n] : \A i, j \in 1..n : p[i] = p[j] => i = j}
    IN  {[i \in 1..n |-> s[p[i]]] : p \in bij}

----------------------------------------------------------------------------
(* batchv1.Job, as far as the controller reads it.                         *)

NoTime == <<>>

Job(name, ns, owners, active, succeeded, failed, start) ==
    [name |-> name, ns |-> ns, owners |-> owners,
     active |-> active, succeeded |-> succeeded, failed |-> failed,
     start |-> start]

OwnerRef(kind, name) == [kind |-> kind, name |-> name]

----------------------------------------------------------------------------
(* filterJobsByOwner: the Jobs with an owner reference of kind CronJob     *)
(* and the given name, in listing order.                                   *)

isOwnedBy_anyCronJob(job, cronJobName) ==
    \E i \in 1..Len(job.owners) : job.owners[i].kind = "CronJob"

isOwnedBy_nameOnly(job, cronJobName) ==
    \E i \in 1..Len(job.owners) : job.owners[i].name = cronJobName

isOwnedBy(job, cronJobName) ==
    \E i \in 1..Len(job.owners) :
        /\ job.owners[i].kind = "CronJob"
        /\ job.owners[i].name = cronJobName

filterJobsByOwner(jobs, cronJobName) ==
    SelectSeq(jobs, LAMBDA job : isOwnedBy(job, cronJobName))

----------------------------------------------------------------------------
(* classifyJobs: the switch of the loop body, and the three slices.        *)

classOf_succeededFirst(job) ==
    IF job.succeeded > 0 THEN "succeeded"
    ELSE IF job.active > 0 THEN "active"
    ELSE IF job.failed > 0 THEN "failed"
    ELSE "none"

classOf(job) ==
    IF job.active > 0 THEN "active"
    ELSE IF job.succeeded > 0 THEN "succeeded"
    ELSE IF job.failed > 0 THEN "failed"
    ELSE "none"

classifyJobs_byEachCounter(jobs) ==
    [active    |-> SelectSeq(jobs, LAMBDA job : job.active > 0),
     succeeded |-> SelectSeq(jobs, LAMBDA job : job.succeeded > 0),
     failed    |-> SelectSeq(jobs, LAMBDA job : job.failed > 0)]

classifyJobs(jobs) ==
    [active    |-> SelectSeq(jobs, LAMBDA job : classOf(job) = "active"),
     succeeded |-> SelectSeq(jobs, LAMBDA job : classOf(job) = "succeeded"),
     failed    |-> SelectSeq(jobs, LAMBDA job : classOf(job) = "failed")]

----------------------------------------------------------------------------
(* detectStuckJobs: the Jobs with a start time more than stuckAfter ago.   *)

isStuck_atThreshold(job, stuckAfter, now) ==
    /\ job.start # NoTime
    /\ now - job.start[1] >= stuckAfter

isStuck(job, stuckAfter, now) ==
    /\ job.start # NoTime
    /\ now - job.start[1] > stuckAfter

detectStuckJobs(jobs, stuckAfter, now) ==
    SelectSeq(jobs, LAMBDA job : isStuck(job, stuckAfter, now))

----------------------------------------------------------------------------
(* excessJobs.  The comparison handed to sort.Slice, the orders sort.Slice *)
(* may leave the slice in, and the slice expression after it.  sort.Slice  *)
(* is not stable: elements that compare equal end in any order.            *)

less_unstartedNewest(a, b) ==
    IF b.start = NoTime THEN FALSE
    ELSE IF a.start = NoTime THEN TRUE
    ELSE a.start[1] > b.start[1]

less(a, b) ==
    IF a.start = NoTime THEN FALSE
    ELSE IF b.start = NoTime THEN TRUE
    ELSE a.start[1] > b.start[1]

sortSlice(jobs) ==
    {s \in Arrangements(jobs) :
        \A i, j \in 1..Len(s) : i < j => ~less(s[j], s[i])}

tailFrom_keepOneMore(sorted, retainCount) ==
    IF Len(sorted) > retainCount + 1
    THEN SubSeq(sorted, retainCount + 2, Len(sorted))
    ELSE <<>>

tailFrom(sorted, retainCount) ==
    IF Len(sorted) > retainCount
    THEN SubSeq(sorted, retainCount + 1, Len(sorted))
    ELSE <<>>

(* The set of slices excessJobs may return.                                *)
excessJobs(jobs, retainCount) ==
    {tailFrom(sorted, retainCount) : sorted \in sortSlice(jobs)}

----------------------------------------------------------------------------
(* validateSpec: the error it returns, "" for nil.                          *)

validateSpec_allowsNegative(spec) ==
    IF spec.runInterval < Second
    THEN "spec.runInterval must be at least 1s"
    ELSE IF spec.cleanupStuck.enabled /\ spec.cleanupStuck.stuckAfter < Second
    THEN "spec.cleanupStuck.stuckAfter must be at least 1s when enabled"
    ELSE ""

validateSpec_stuckAfterAlways(spec) ==
    IF spec.runInterval < Second
    THEN "spec.runInterval must be at least 1s"
    ELSE IF spec.retain.successfulJobs < 0
    THEN "spec.retain.successfulJobs cannot be negative"
    ELSE IF spec.retain.failedJobs < 0
    THEN "spec.retain.failedJobs cannot be negative"
    ELSE IF spec.cleanupStuck.stuckAfter < Second
    THEN "spec.cleanupStuck.stuckAfter must be at least 1s when enabled"
    ELSE ""

validateSpec(spec) ==
    IF spec.runInterval < Second
    THEN "spec.runInterval must be at least 1s"
    ELSE IF spec.retain.successfulJobs < 0
    THEN "spec.retain.successfulJobs cannot be negative"
    ELSE IF spec.retain.failedJobs < 0
    THEN "spec.retain.failedJobs cannot be negative"
    ELSE IF spec.cleanupStuck.enabled /\ spec.cleanupStuck.stuckAfter < Second
    THEN "spec.cleanupStuck.stuckAfter must be at least 1s when enabled"
    ELSE ""

----------------------------------------------------------------------------
(* setCondition, through meta.SetStatusCondition: a new condition is       *)
(* added as given; an existing one keeps its lastTransitionTime unless its *)
(* status changes, and takes the reason and the message.                   *)

NoCondition == <<>>

setCondition_keepsMessage(status, condStatus, reason, message, now) ==
    LET new == [status |-> condStatus, reason |-> reason, message |-> message,
                lastTransitionTime |-> now]
    IN  IF status.ready = NoCondition
        THEN [status EXCEPT !.ready = <<new>>]
        ELSE IF status.ready[1].status # condStatus
        THEN [status EXCEPT !.ready = <<new>>]
        ELSE status

setCondition_onlyIfAbsent(status, condStatus, reason, message, now) ==
    LET new == [status |-> condStatus, reason |-> reason, message |-> message,
                lastTransitionTime |-> now]
    IN  IF status.ready = NoCondition
        THEN [status EXCEPT !.ready = <<new>>]
        ELSE status

setCondition(status, condStatus, reason, message, now) ==
    LET new == [status |-> condStatus, reason |-> reason, message |-> message,
                lastTransitionTime |-> now]
    IN  IF status.ready = NoCondition
        THEN [status EXCEPT !.ready = <<new>>]
        ELSE IF status.ready[1].status # condStatus
        THEN [status EXCEPT !.ready = <<new>>]
        ELSE [status EXCEPT !.ready =
                <<[new EXCEPT !.lastTransitionTime =
                        status.ready[1].lastTransitionTime]>>]

----------------------------------------------------------------------------
(* deleteJobs: r.Delete on each Job of the slice in order.  A Delete fails *)
(* when the API server no longer holds the Job or on a fault (failing);    *)
(* the loop logs the error and continues.  The Jobs of one slice are       *)
(* distinct, so the Deletes of a slice do not affect one another.          *)

deleteOk(job, held, failing) == job.name \in held /\ job.name \notin failing

(* The error r.Delete returns, "" for nil.                                 *)
deleteErr(job, held, failing) ==
    IF job.name \in failing THEN "fault"
    ELSE IF job.name \notin held THEN "NotFound"
    ELSE ""

deleteLogOf_abortOnError(jobs, jobType, held, failing) ==
    LET firstBad == {i \in 1..Len(jobs) : ~deleteOk(jobs[i], held, failing)}
        last == IF firstBad = {} THEN Len(jobs)
                ELSE CHOOSE i \in firstBad : \A k \in firstBad : i <= k
    IN  [i \in 1..last |->
            [name |-> jobs[i].name, type |-> jobType,
             ok |-> deleteOk(jobs[i], held, failing),
             err |-> deleteErr(jobs[i], held, failing)]]

deleteLogOf(jobs, jobType, held, failing) ==
    [i \in 1..Len(jobs) |->
        [name |-> jobs[i].name, type |-> jobType,
         ok |-> deleteOk(jobs[i], held, failing),
         err |-> deleteErr(jobs[i], held, failing)]]

deletedNames(log) == {log[i].name : i \in {k \in 1..Len(log) : log[k].ok}}

countOf(log) == Cardinality({i \in 1..Len(log) : log[i].ok})

deleteJobs_keepsJobs(jobs, jobType, held, failing) ==
    LET log == deleteLogOf(jobs, jobType, held, failing)
    IN  [log |-> log, count |-> countOf(log), held |-> held]

deleteJobs(jobs, jobType, held, failing) ==
    LET log == deleteLogOf(jobs, jobType, held, failing)
    IN  [log |-> log, count |-> countOf(log), held |-> held \ deletedNames(log)]

----------------------------------------------------------------------------
(* Reconcile, lines 126-162: the slices handed to deleteJobs.  Stuck       *)
(* detection and both retention evaluations sit inside the                 *)
(* `if cleaner.Spec.CleanupStuck.Enabled` block.  A set, because of the    *)
(* orders sort.Slice may choose.                                           *)

NoLists == [stuck |-> <<>>, excessSucceeded |-> <<>>, excessFailed |-> <<>>]

cleanupLists_succeededFirst(spec, groups, now) ==
    IF spec.cleanupStuck.enabled
    THEN {[stuck |-> exS,
           excessSucceeded |-> detectStuckJobs(groups.active,
                                               spec.cleanupStuck.stuckAfter, now),
           excessFailed |-> exF] :
            exS \in excessJobs(groups.succeeded, spec.retain.successfulJobs),
            exF \in excessJobs(groups.failed, spec.retain.failedJobs)}
    ELSE {NoLists}

cleanupLists(spec, groups, now) ==
    IF spec.cleanupStuck.enabled
    THEN {[stuck |-> detectStuckJobs(groups.active,
                                     spec.cleanupStuck.stuckAfter, now),
           excessSucceeded |-> exS,
           excessFailed |-> exF] :
            exS \in excessJobs(groups.succeeded, spec.retain.successfulJobs),
            exF \in excessJobs(groups.failed, spec.retain.failedJobs)}
    ELSE {NoLists}

----------------------------------------------------------------------------
(* The objects of a Reconcile run.                                         *)

TargetNamespace == "ns1"
TargetCronJob == "cj1"

RetainCounts == {-1, 0, 1}
Durations == {Second - 1, Second}

PolicySpecs ==
    {[namespace |-> TargetNamespace, cronJobName |-> TargetCronJob,
      retain |-> [successfulJobs |-> rs, failedJobs |-> rf],
      cleanupStuck |-> [enabled |-> en, stuckAfter |-> sa],
      runInterval |-> ri] :
        rs \in RetainCounts, rf \in RetainCounts, en \in BOOLEAN,
        sa \in Durations, ri \in Durations}

(* How many of the bounds validateSpec checks a policy breaks.             *)
broken(spec) ==
    (IF spec.runInterval < Second THEN 1 ELSE 0)
    + (IF spec.retain.successfulJobs < 0 THEN 1 ELSE 0)
    + (IF spec.retain.failedJobs < 0 THEN 1 ELSE 0)
    + (IF spec.cleanupStuck.enabled /\ spec.cleanupStuck.stuckAfter < Second
       THEN 1 ELSE 0)

(* The policies of the Reconcile runs: the ones within bounds and the ones *)
(* that break a single bound.                                              *)
RunPolicies == {spec \in PolicySpecs : broken(spec) <= 1}

(* The same with one retain count for both outcomes and a fixed interval.  *)
ScopePolicies ==
    {spec \in RunPolicies :
        /\ spec.retain.successfulJobs = spec.retain.failedJobs
        /\ spec.runInterval = Second}

NoStatus ==
    [lastRunTime |-> NoTime, jobsDeleted |-> 0, podsDeleted |-> 0,
     ready |-> NoCondition]

StartTimes == {NoTime} \cup {<<t>> : t \in 0..MaxStart}
Counts == 0..MaxCount

(* Jobs of the target CronJob in the target namespace, in every state of   *)
(* their counters that classifyJobs tells apart: never started, started    *)
(* first, started last.                                                    *)
OwnedShapes ==
    {Job(0, TargetNamespace, <<OwnerRef("CronJob", TargetCronJob)>>, a, s, f, st) :
        a \in {0, 1}, s \in {0, 1}, f \in {0, 1},
        st \in {NoTime, <<0>>, <<MaxStart>>}}

(* Jobs the cleaner would delete if they were its target's: active since   *)
(* the start, succeeded, failed; in and out of the target namespace, with  *)
(* every kind of owner reference list.                                     *)
OwnerLists ==
    {<<>>,
     <<OwnerRef("CronJob", TargetCronJob)>>,
     <<OwnerRef("CronJob", "cj2")>>,
     <<OwnerRef("Job", TargetCronJob)>>,
     <<OwnerRef("Job", TargetCronJob), OwnerRef("CronJob", TargetCronJob)>>,
     <<OwnerRef("Job", "cj2"), OwnerRef("CronJob", "cj2")>>}

ScopedShapes ==
    {Job(0, ns, owners, c[1], c[2], c[3], <<0>>) :
        ns \in {TargetNamespace, "ns2"}, owners \in OwnerLists,
        c \in {<<1, 0, 0>>, <<0, 1, 0>>, <<0, 0, 1>>}}

JobNames == 1..MaxJobs

(* The controller never reads a Job's name, so clusters that differ only   *)
(* in the names of their Jobs are the same run: one of each is taken, the  *)
(* Jobs in the order of this key.                                          *)
ownersKey(owners) ==
    IF owners = <<>> THEN 0
    ELSE LET last == owners[Len(owners)]
         IN  1 + (IF last.kind = "CronJob" THEN 0 ELSE 1)
               + (IF last.name = TargetCronJob THEN 0 ELSE 2)
               + (IF Len(owners) > 1 THEN 4 ELSE 0)

jobKey(job) ==
    LET st == IF job.start = NoTime THEN 0 ELSE job.start[1] + 1
        ns == IF job.ns = TargetNamespace THEN 0 ELSE 1
    IN  ((((ns * 9 + ownersKey(job.owners)) * 2 + job.active) * 2
            + job.succeeded) * 2 + job.failed) * (MaxStart + 2) + st

Clusters(shapes) ==
    {[n \in JobNames |-> [f[n] EXCEPT !.name = n]] :
        f \in {g \in [JobNames -> shapes] :
                \A i, j \in JobNames : i < j => jobKey(g[i]) <= jobKey(g[j])}}

(* The zero value of the CronExecutionCleaner an invocation declares.     *)
ZeroCleaner ==
    [spec |-> [namespace |-> "", cronJobName |-> "",
               retain |-> [successfulJobs |-> 0, failedJobs |-> 0],
               cleanupStuck |-> [enabled |-> FALSE, stuckAfter |-> 0],
               runInterval |-> 0],
     status |-> NoStatus,
     resourceVersion |-> 0]

Result(requeueAfter, err) == [requeueAfter |-> requeueAfter, err |-> err]

(* No invocation has returned yet, or one is in flight.                    *)
NoResult == Result(0, "pending")

NoEval ==
    [owned |-> <<>>, active |-> <<>>, succeeded |-> <<>>, failed |-> <<>>,
     lists |-> NoLists, counts |-> <<0, 0, 0>>]

(* No cycle has been observed; there is no second policy.                  *)
NoRun == <<>>
NoOther == <<>>

InitReconcile(shapes, policies) ==
    /\ jobObjs \in Clusters(shapes)
    /\ present = JobNames
    /\ stored \in {[spec |-> spec, status |-> NoStatus, resourceVersion |-> 1] :
                        spec \in policies}
    /\ cached = stored
    /\ clock = MaxStart
    /\ pc = "idle"
    /\ cleaner = ZeroCleaner
    /\ jobList = <<>>
    /\ deletedCount = 0
    /\ eval = NoEval
    /\ deleteLog = <<>>
    /\ apiLog = <<>>
    /\ result = NoResult
    /\ fnIn = <<>>
    /\ fnOut = <<>>
    /\ fnPc = "unused"
    /\ firstRun = NoRun
    /\ other = NoOther

----------------------------------------------------------------------------
(* Reconcile.  The invocation is split at the calls that leave the         *)
(* process: r.Get / r.List, the r.Delete calls, the r.Status().Update      *)
(* calls.                                                                  *)

(* r.List with client.InNamespace: the Jobs held, in name order.           *)
RECURSIVE listFrom(_, _, _)
listFrom(n, held, ns) ==
    IF n > MaxJobs THEN <<>>
    ELSE IF n \in held /\ jobObjs[n].ns = ns
         THEN <<jobObjs[n]>> \o listFrom(n + 1, held, ns)
         ELSE listFrom(n + 1, held, ns)

listJobs(held, ns) == listFrom(1, held, ns)

(* A client call other than r.Delete, and how it ended.                    *)
Call(call, ok) == [call |-> call, ok |-> ok]

(* r.Status().Update: the API server replaces the status of the object it  *)
(* holds if the caller's copy carries the resourceVersion of that object   *)
(* and no fault occurs; a change of content gives the object a new         *)
(* resourceVersion, and the caller's copy is brought up to the object      *)
(* written.  Otherwise the call returns an error and changes nothing.      *)
updateStatus_replacesObject(obj, server, fault) ==
    IF fault
    THEN [ok |-> FALSE, obj |-> obj, server |-> server]
    ELSE LET written ==
               [obj EXCEPT
                  !.resourceVersion =
                     IF obj.status = server.status /\ obj.spec = server.spec
                     THEN server.resourceVersion
                     ELSE server.resourceVersion + 1]
         IN  [ok |-> TRUE, obj |-> written, server |-> written]

updateStatus_unconditional(obj, server, fault) ==
    IF fault
    THEN [ok |-> FALSE, obj |-> obj, server |-> server]
    ELSE LET written ==
               [server EXCEPT
                  !.status = obj.status,
                  !.resourceVersion =
                     IF obj.status = server.status THEN @ ELSE @ + 1]
         IN  [ok |-> TRUE, obj |-> written, server |-> written]

updateStatus(obj, server, fault) ==
    IF fault \/ obj.resourceVersion # server.resourceVersion
    THEN [ok |-> FALSE, obj |-> obj, server |-> server]
    ELSE LET written ==
               [server EXCEPT
                  !.status = obj.status,
                  !.resourceVersion =
                     IF obj.status = server.status THEN @ ELSE @ + 1]
         IN  [ok |-> TRUE, obj |-> written, server |-> written]

(* Lines 166-167: both counters grow by the number of Jobs deleted.        *)
addDeleted_jobsOnly(status, n) ==
    [status EXCEPT !.jobsDeleted = @ + n]

addDeleted(status, n) ==
    [status EXCEPT !.jobsDeleted = @ + n, !.podsDeleted = @ + n]

(* Lines 164-168: the status of a cycle that deleted n Jobs.               *)
countDeleted_stampsAlways(status, n, now) ==
    [addDeleted(status, n) EXCEPT !.lastRunTime = <<now>>]

countDeleted(status, n, now) ==
    IF n > 0
    THEN [addDeleted(status, n) EXCEPT !.lastRunTime = <<now>>]
    ELSE status

(* Lines 188-190: the return of a cycle that ran to its end.               *)
requeueResult_noDelay(spec) == Result(0, "")

requeueResult(spec) == Result(spec.runInterval, "")

(* Every invocation starts with fresh locals.  r.Get fails: lines 66-70;   *)
(* client.IgnoreNotFound turns the error of a missing object into nil.     *)
ReconcileGetFails ==
    /\ pc = "idle"
    /\ cleaner' = ZeroCleaner
    /\ jobList' = <<>>
    /\ deletedCount' = 0
    /\ deleteLog' = <<>>
    /\ apiLog' = <<Call("Get", FALSE)>>
    /\ eval' = NoEval
    /\ \E notFound \in BOOLEAN :
         result' = IF notFound THEN Result(0, "") ELSE Result(0, "get")
    /\ UNCHANGED <<jobObjs, present, stored, cached, clock, pc, fnVars, auxVars>>

(* r.Get, validateSpec fails: lines 72-92.  The outcome of the status      *)
(* update is dropped.                                                      *)
ReconcileInvalid ==
    /\ pc = "idle"
    /\ validateSpec(cached.spec) # ""
    /\ \E fault \in BOOLEAN :
         LET invalid == [cached EXCEPT !.status =
                            setCondition(@, "False", "InvalidSpec",
                                         validateSpec(cached.spec), clock)]
             update == updateStatus(invalid, stored, fault)
         IN  /\ cleaner' = update.obj
             /\ stored' = update.server
             /\ apiLog' = <<Call("Get", TRUE),
                            Call("Status.Update", update.ok)>>
    /\ jobList' = <<>>
    /\ deletedCount' = 0
    /\ deleteLog' = <<>>
    /\ eval' = NoEval
    /\ result' = Result(0, "")
    /\ UNCHANGED <<jobObjs, present, cached, clock, pc, fnVars, auxVars>>

ReconcileListFails_reportsNotReady ==
    /\ pc = "idle"
    /\ validateSpec(cached.spec) = ""
    /\ \E fault \in BOOLEAN :
         LET failed == [cached EXCEPT !.status =
                           setCondition(@, "False", "ListFailed",
                                        "unable to list Jobs", clock)]
             update == updateStatus(failed, stored, fault)
         IN  /\ cleaner' = update.obj
             /\ stored' = update.server
             /\ apiLog' = <<Call("Get", TRUE), Call("List", FALSE),
                            Call("Status.Update", update.ok)>>
    /\ jobList' = <<>>
    /\ deletedCount' = 0
    /\ deleteLog' = <<>>
    /\ eval' = NoEval
    /\ result' = Result(0, "list")
    /\ UNCHANGED <<jobObjs, present, cached, clock, pc, fnVars, auxVars>>

(* r.Get, validateSpec passes, r.List fails: lines 103-109.                *)
ReconcileListFails ==
    /\ pc = "idle"
    /\ validateSpec(cached.spec) = ""
    /\ cleaner' = cached
    /\ jobList' = <<>>
    /\ deletedCount' = 0
    /\ deleteLog' = <<>>
    /\ apiLog' = <<Call("Get", TRUE), Call("List", FALSE)>>
    /\ eval' = NoEval
    /\ result' = Result(0, "list")
    /\ UNCHANGED <<jobObjs, present, stored, cached, clock, pc, fnVars, auxVars>>

(* r.Get, validateSpec passes, r.List returns: lines 66-105.               *)
ReconcileList ==
    /\ pc = "idle"
    /\ validateSpec(cached.spec) = ""
    /\ cleaner' = cached
    /\ jobList' = listJobs(present, cached.spec.namespace)
    /\ deletedCount' = 0
    /\ deleteLog' = <<>>
    /\ apiLog' = <<Call("Get", TRUE), Call("List", TRUE)>>
    /\ eval' = NoEval
    /\ result' = NoResult
    /\ pc' = "listed"
    /\ UNCHANGED <<jobObjs, present, stored, cached, clock, fnVars, auxVars>>

(* filterJobsByOwner, classifyJobs and the three deleteJobs calls: lines   *)
(* 111-162.  failing: the Jobs whose Delete meets a fault.                 *)
ReconcileDelete ==
    /\ pc = "listed"
    /\ LET owned == filterJobsByOwner(jobList, cleaner.spec.cronJobName)
           groups == classifyJobs(owned)
       IN  \E lists \in cleanupLists(cleaner.spec, groups, clock) :
           \E failing \in SUBSET (Names(lists.stuck)
                                    \cup Names(lists.excessSucceeded)
                                    \cup Names(lists.excessFailed)) :
             LET d1 == deleteJobs(lists.stuck, "stuck", present, failing)
                 d2 == deleteJobs(lists.excessSucceeded, "succeeded",
                                  d1.held, failing)
                 d3 == deleteJobs(lists.excessFailed, "failed",
                                  d2.held, failing)
             IN  /\ eval' = [owned |-> owned, active |-> groups.active,
                             succeeded |-> groups.succeeded,
                             failed |-> groups.failed, lists |-> lists,
                             counts |-> <<d1.count, d2.count, d3.count>>]
                 /\ deleteLog' = d1.log \o d2.log \o d3.log
                 /\ deletedCount' = d1.count + d2.count + d3.count
                 /\ present' = d3.held
    /\ pc' = "deleted"
    /\ UNCHANGED <<jobObjs, stored, cached, clock, cleaner, jobList, apiLog,
                   result, fnVars, auxVars>>

(* The status writes and the return: lines 164-190.  The counters are      *)
(* written inside the `if cleaner.Spec.CleanupStuck.Enabled` block, only   *)
(* when deletedCount > 0, and a failure of that update is returned; the    *)
(* outcome of the update of the Ready condition is dropped.                *)
ReconcileStatus ==
    /\ pc = "deleted"
    /\ pc' = "idle"
    /\ \E countFault, readyFault \in BOOLEAN :
         LET counting == cleaner.spec.cleanupStuck.enabled /\ deletedCount > 0
             counted == [cleaner EXCEPT !.status =
                            countDeleted(@, deletedCount, clock)]
             count == IF counting
                      THEN updateStatus(counted, stored, countFault)
                      ELSE [ok |-> TRUE, obj |-> counted, server |-> stored]
             ready == [count.obj EXCEPT !.status =
                          setCondition(@, "True", "ReconcileSuccess",
                                       "Cleanup executed successfully", clock)]
             update == updateStatus(ready, count.server, readyFault)
             counts == IF counting
                       THEN <<Call("Status.Update", count.ok)>> ELSE <<>>
         IN  IF ~count.ok
             THEN /\ cleaner' = count.obj
                  /\ stored' = count.server
                  /\ apiLog' = apiLog \o counts
                  /\ result' = Result(0, "update")
             ELSE /\ cleaner' = update.obj
                  /\ stored' = update.server
                  /\ apiLog' = apiLog \o counts
                                \o <<Call("Status.Update", update.ok)>>
                  /\ result' = requeueResult(cleaner.spec)
    /\ UNCHANGED <<jobObjs, present, cached, clock, jobList, deletedCount,
                   eval, deleteLog, fnVars, auxVars>>

(* The client's cache catches up with the API server.  Only r.Get reads    *)
(* the cache, so whether it catches up during an invocation or right after *)
(* it makes no difference: it is taken to do so between invocations.       *)
CacheSync ==
    /\ pc = "idle"
    /\ cached # stored
    /\ cached' = stored
    /\ UNCHANGED <<jobObjs, present, stored, clock, pc, cleaner, jobList,
                   deletedCount, eval, deleteLog, apiLog, result, fnVars, auxVars>>

(* Time passes.                                                            *)
Tick ==
    /\ clock < MaxTime
    /\ clock' = clock + 1
    /\ UNCHANGED <<jobObjs, present, stored, cached, pc, cleaner, jobList,
                   deletedCount, eval, deleteLog, apiLog, result, fnVars, auxVars>>

Next ==
    \/ ReconcileGetFails
    \/ ReconcileInvalid
    \/ ReconcileListFails
    \/ ReconcileList
    \/ ReconcileDelete
    \/ ReconcileStatus
    \/ CacheSync
    \/ Tick

Init == InitReconcile(OwnedShapes, RunPolicies)

Spec == Init /\ [][Next]_vars

InitScope == InitReconcile(ScopedShapes, ScopePolicies)

SpecScope == InitScope /\ [][Next]_vars

(* The runs of a policy within bounds, with the scheduling the claim of    *)
(* convergence assumes: the invocation is repeated (after its requeue      *)
(* delay, or by the retry that follows a returned error) and gets its      *)
(* listing, and a cycle in which no Delete fails keeps being possible.     *)
ValidPolicies == {spec \in RunPolicies : broken(spec) = 0}

InitFair == InitReconcile(OwnedShapes, ValidPolicies)

NextFair ==
    \/ ReconcileGetFails
    \/ ReconcileListFails
    \/ ReconcileList
    \/ ReconcileDelete
    \/ ReconcileStatus
    \/ CacheSync
    \/ Tick

DeletesSucceed ==
    /\ ReconcileDelete
    /\ \A i \in 1..Len(deleteLog') : deleteLog'[i].ok

FairSpec ==
    /\ InitFair
    /\ [][NextFair]_vars
    /\ WF_vars(ReconcileList)
    /\ SF_vars(DeletesSucceed)
    /\ WF_vars(ReconcileStatus)

OwnedJob(a, s, f, st) ==
    Job(0, TargetNamespace, <<OwnerRef("CronJob", TargetCronJob)>>, a, s, f, st)

(* The runs in which the policy is edited between invocations: a few      *)
(* policies, within bounds and not, over Jobs the cleaner has reason to    *)
(* delete.                                                                 *)
Policy(rs, rf, enabled, stuckAfter, runInterval) ==
    [namespace |-> TargetNamespace, cronJobName |-> TargetCronJob,
     retain |-> [successfulJobs |-> rs, failedJobs |-> rf],
     cleanupStuck |-> [enabled |-> enabled, stuckAfter |-> stuckAfter],
     runInterval |-> runInterval]

StatusPolicies ==
    {Policy(0, 0, TRUE, Second, Second),
     Policy(0, 0, FALSE, Second - 1, Second),
     Policy(0, 0, TRUE, Second, Second - 1),
     Policy(-1, 0, TRUE, Second, Second)}

StatusShapes ==
    {OwnedJob(1, 0, 0, <<0>>), OwnedJob(1, 0, 0, <<MaxStart>>),
     OwnedJob(0, 1, 0, <<0>>), OwnedJob(0, 0, 1, NoTime)}

(* The user replaces the spec of the policy.                               *)
EditSpec ==
    /\ stored.resourceVersion < MaxVersion
    /\ \E spec \in StatusPolicies \ {stored.spec} :
         stored' = [stored EXCEPT !.spec = spec, !.resourceVersion = @ + 1]
    /\ UNCHANGED <<jobObjs, present, cached, clock, pc, cleaner, jobList,
                   deletedCount, eval, deleteLog, apiLog, result, fnVars, auxVars>>

InitStatus == InitReconcile(StatusShapes, StatusPolicies)

NextStatus ==
    \/ ReconcileGetFails
    \/ ReconcileInvalid
    \/ ReconcileListFails
    \/ ReconcileList
    \/ ReconcileDelete
    \/ ReconcileStatus
    \/ CacheSync
    \/ EditSpec
    \/ Tick

SpecStatus == InitStatus /\ [][NextStatus]_vars

----------------------------------------------------------------------------
(* The helpers on their own: the arguments are drawn in the initial state, *)
(* one step calls the helper, and for excessJobs a second step calls it    *)
(* again on the same arguments.                                            *)

InitHelper ==
    /\ jobObjs = <<>>
    /\ present = {}
    /\ stored = ZeroCleaner
    /\ cached = ZeroCleaner
    /\ clock = 0
    /\ pc = "unused"
    /\ cleaner = ZeroCleaner
    /\ jobList = <<>>
    /\ deletedCount = 0
    /\ eval = NoEval
    /\ deleteLog = <<>>
    /\ apiLog = <<>>
    /\ result = NoResult
    /\ fnOut = <<>>
    /\ fnPc = "ready"
    /\ firstRun = NoRun
    /\ other = NoOther

(* A slice of Jobs named by their position in it.                          *)
Named(shapes) == [i \in 1..Len(shapes) |-> [shapes[i] EXCEPT !.name = i]]

(* excessJobs on a group of finished Jobs.                                 *)
InitExcess ==
    /\ InitHelper
    /\ \E starts \in SeqsUpTo(StartTimes, MaxLen), retainCount \in 0..(MaxLen + 1) :
         fnIn = [jobs |-> Named([i \in 1..Len(starts) |->
                                    OwnedJob(0, 1, 0, starts[i])]),
                 retainCount |-> retainCount]

ExcessCall ==
    /\ fnPc = "ready"
    /\ \E out \in excessJobs(fnIn.jobs, fnIn.retainCount) : fnOut' = <<out>>
    /\ fnPc' = "done"
    /\ UNCHANGED <<reconcileVars, fnIn, auxVars>>

ExcessCallAgain ==
    /\ fnPc = "done"
    /\ \E out \in excessJobs(fnIn.jobs, fnIn.retainCount) :
         fnOut' = Append(fnOut, out)
    /\ fnPc' = "again"
    /\ UNCHANGED <<reconcileVars, fnIn, auxVars>>

NextExcess == ExcessCall \/ ExcessCallAgain

SpecExcess == InitExcess /\ [][NextExcess]_vars

(* detectStuckJobs on a group of active Jobs.                              *)
InitStuck ==
    /\ InitHelper
    /\ \E starts \in SeqsUpTo(StartTimes, MaxLen),
          stuckAfter \in 0..(Second + 1), now \in 0..MaxTime :
         fnIn = [jobs |-> Named([i \in 1..Len(starts) |->
                                    OwnedJob(1, 0, 0, starts[i])]),
                 stuckAfter |-> stuckAfter, now |-> now]

StuckCall ==
    /\ fnPc = "ready"
    /\ fnOut' = detectStuckJobs(fnIn.jobs, fnIn.stuckAfter, fnIn.now)
    /\ fnPc' = "done"
    /\ UNCHANGED <<reconcileVars, fnIn, auxVars>>

NextStuck == StuckCall

SpecStuck == InitStuck /\ [][NextStuck]_vars

(* classifyJobs on Jobs with every value of the three counters, and the    *)
(* slices Reconcile hands to deleteJobs from its groups.                   *)
InitClassify ==
    /\ InitHelper
    /\ \E counters \in SeqsUpTo(Counts \X Counts \X Counts, MaxClassifyLen),
          spec \in {p \in PolicySpecs : validateSpec(p) = ""} :
         fnIn = [jobs |-> Named([i \in 1..Len(counters) |->
                                    OwnedJob(counters[i][1], counters[i][2],
                                             counters[i][3], <<0>>)]),
                 spec |-> spec, now |-> MaxTime]

ClassifyCall ==
    /\ fnPc = "ready"
    /\ LET groups == classifyJobs(fnIn.jobs)
       IN  \E lists \in cleanupLists(fnIn.spec, groups, fnIn.now) :
             fnOut' = [groups |-> groups, lists |-> lists]
    /\ fnPc' = "done"
    /\ UNCHANGED <<reconcileVars, fnIn, auxVars>>

NextClassify == ClassifyCall

SpecClassify == InitClassify /\ [][NextClassify]_vars

(* validateSpec on policies with every field below, at and above its      *)
(* bound.                                                                  *)
InitValidate ==
    /\ InitHelper
    /\ \E rs \in -1..MaxCount, rf \in -1..MaxCount, enabled \in BOOLEAN,
          stuckAfter \in 0..(Second + 1), runInterval \in 0..(Second + 1) :
         fnIn = [spec |-> Policy(rs, rf, enabled, stuckAfter, runInterval)]

ValidateCall ==
    /\ fnPc = "ready"
    /\ fnOut' = validateSpec(fnIn.spec)
    /\ fnPc' = "done"
    /\ UNCHANGED <<reconcileVars, fnIn, auxVars>>

NextValidate == ValidateCall

SpecValidate == InitValidate /\ [][NextValidate]_vars

----------------------------------------------------------------------------
(* The properties, stated on the objects themselves and not through the    *)
(* helpers above.                                                          *)

(* An owner reference of kind CronJob naming the target.                   *)
HasTargetOwner(job, spec) ==
    \E i \in 1..Len(job.owners) :
        job.owners[i] = OwnerRef("CronJob", spec.cronJobName)

InScope(job, spec) == job.ns = spec.namespace /\ HasTargetOwner(job, spec)

(* a started after b; a Job without a start time is older than any other.  *)
Newer(a, b) ==
    /\ a.start # NoTime
    /\ (b.start = NoTime \/ a.start[1] > b.start[1])

Entries(log, type) == {i \in 1..Len(log) : log[i].type = type}

(* C1: every Job of a Delete call, and every Job that is gone, is in the   *)
(* policy's namespace and has an owner reference of kind CronJob with the  *)
(* policy's cronJobName; a Job without one is never deleted.               *)
C1_DeletesOnlyTargetJobs ==
    /\ \A i \in 1..Len(deleteLog) :
         InScope(jobObjs[deleteLog[i].name], stored.spec)
    /\ \A n \in JobNames \ present : InScope(jobObjs[n], stored.spec)

(* A cycle deleted a Job of the target while Jobs of another owner, of an  *)
(* owner of another kind and of another namespace were all left alone.     *)
C1_Witness ==
    /\ pc = "deleted"
    /\ \E i \in 1..Len(deleteLog) : deleteLog[i].ok
    /\ \E n \in present :
         /\ ~InScope(jobObjs[n], stored.spec)
         /\ \/ jobObjs[n].ns # stored.spec.namespace
            \/ \E k \in 1..Len(jobObjs[n].owners) :
                 jobObjs[n].owners[k].name = stored.spec.cronJobName

(* The finished Jobs of the target in the listing, by outcome, counted as  *)
(* the documentation counts them.                                          *)
ListedOf(outcome) ==
    {i \in 1..Len(jobList) :
        /\ HasTargetOwner(jobList[i], cleaner.spec)
        /\ jobList[i].active = 0
        /\ IF outcome = "succeeded" THEN jobList[i].succeeded > 0
           ELSE jobList[i].succeeded = 0 /\ jobList[i].failed > 0}

Beyond(n, retainCount) == IF n > retainCount THEN n - retainCount ELSE 0

(* C2: with cleanupStuck.enabled false a cycle deletes no Job as stuck,    *)
(* and still issues the Deletes of retention: the succeeded Jobs beyond    *)
(* retain.successfulJobs and the failed Jobs beyond retain.failedJobs.     *)
C2_RetentionWithoutStuckCleanup ==
    (pc = "deleted" /\ ~cleaner.spec.cleanupStuck.enabled) =>
        /\ Entries(deleteLog, "stuck") = {}
        /\ Cardinality(Entries(deleteLog, "succeeded")) =
             Beyond(Cardinality(ListedOf("succeeded")),
                    cleaner.spec.retain.successfulJobs)
        /\ Cardinality(Entries(deleteLog, "failed")) =
             Beyond(Cardinality(ListedOf("failed")),
                    cleaner.spec.retain.failedJobs)

(* C3: excessJobs returns nothing for a group no larger than retainCount,  *)
(* and otherwise len - retainCount distinct Jobs of the group, newest      *)
(* first, none of them newer than a Job it keeps.                          *)
C3_ExcessIsOldestTail ==
    fnPc # "ready" =>
        LET jobs == fnIn.jobs
            excess == fnOut[1]
            kept == Range(jobs) \ Range(excess)
        IN  IF Len(jobs) <= fnIn.retainCount
            THEN excess = <<>>
            ELSE /\ Len(excess) = Len(jobs) - fnIn.retainCount
                 /\ Cardinality(Range(excess)) = Len(excess)
                 /\ Range(excess) \subseteq Range(jobs)
                 /\ Cardinality(kept) = fnIn.retainCount
                 /\ \A x \in Range(excess), k \in kept : ~Newer(x, k)
                 /\ \A i, j \in 1..Len(excess) :
                      i < j => ~Newer(excess[j], excess[i])

(* excessJobs kept one of three Jobs with three different start times.     *)
C3_Witness ==
    /\ fnPc = "done"
    /\ Len(fnIn.jobs) = 3
    /\ fnIn.retainCount = 1
    /\ Len(fnOut[1]) = 2
    /\ \A i, j \in 1..3 :
         i # j => fnIn.jobs[i].start # fnIn.jobs[j].start
    /\ \A i \in 1..3 : fnIn.jobs[i].start # NoTime

(* C4: detectStuckJobs returns, in order, exactly the Jobs with a start    *)
(* time for which now - start is greater than stuckAfter: not a Job whose  *)
(* elapsed time equals stuckAfter, and never a Job without a start time.   *)
C4_StuckIsStrictlyPastThreshold ==
    fnPc = "done" =>
        LET jobs == fnIn.jobs
            past == {i \in 1..Len(jobs) :
                        /\ jobs[i].start # NoTime
                        /\ fnIn.now - jobs[i].start[1] > fnIn.stuckAfter}
        IN  /\ Names(fnOut) = {jobs[i].name : i \in past}
            /\ Len(fnOut) = Cardinality(past)
            /\ \A i, j \in 1..Len(fnOut) :
                 i < j => fnOut[i].name < fnOut[j].name
            /\ \A i \in 1..Len(jobs) :
                 (jobs[i].start = NoTime
                    \/ fnIn.now - jobs[i].start[1] = fnIn.stuckAfter)
                 => jobs[i].name \notin Names(fnOut)

(* detectStuckJobs saw a Job past the threshold, a Job exactly at it and a *)
(* Job without a start time, and returned one Job.                         *)
C4_Witness ==
    /\ fnPc = "done"
    /\ Len(fnOut) = 1
    /\ \E i, j, k \in 1..Len(fnIn.jobs) :
         /\ fnIn.jobs[i].start = NoTime
         /\ fnIn.jobs[j].start # NoTime
         /\ fnIn.now - fnIn.jobs[j].start[1] = fnIn.stuckAfter
         /\ fnIn.jobs[k].start # NoTime
         /\ fnIn.now - fnIn.jobs[k].start[1] > fnIn.stuckAfter

(* C5: a Job is in at most one group, chosen by priority: active > 0 gives *)
(* active whatever the other counters; else succeeded > 0 gives succeeded; *)
(* else failed > 0 gives failed; a Job with three zero counters is in no   *)
(* group and in none of the slices handed to deleteJobs.                   *)
C5_ClassifiedByPriority ==
    fnPc = "done" =>
        LET g == fnOut.groups
            l == fnOut.lists
        IN  \A i \in 1..Len(fnIn.jobs) :
              LET job == fnIn.jobs[i]
                  inA == job \in Range(g.active)
                  inS == job \in Range(g.succeeded)
                  inF == job \in Range(g.failed)
              IN  /\ ~(inA /\ inS) /\ ~(inA /\ inF) /\ ~(inS /\ inF)
                  /\ job.active > 0 => inA
                  /\ (job.active = 0 /\ job.succeeded > 0) => inS
                  /\ (job.active = 0 /\ job.succeeded = 0 /\ job.failed > 0)
                        => inF
                  /\ (job.active = 0 /\ job.succeeded = 0 /\ job.failed = 0)
                        => /\ ~inA /\ ~inS /\ ~inF
                           /\ job \notin Range(l.stuck)
                           /\ job \notin Range(l.excessSucceeded)
                           /\ job \notin Range(l.excessFailed)

(* classifyJobs saw a Job with active and succeeded both set and a Job     *)
(* with no counter set, under a policy that retains nothing.               *)
C5_Witness ==
    /\ fnPc = "done"
    /\ fnIn.spec.cleanupStuck.enabled
    /\ fnIn.spec.retain.successfulJobs = 0
    /\ \E i, j \in 1..Len(fnIn.jobs) :
         /\ fnIn.jobs[i].active > 0 /\ fnIn.jobs[i].succeeded > 0
         /\ fnIn.jobs[j].active = 0 /\ fnIn.jobs[j].succeeded = 0
         /\ fnIn.jobs[j].failed = 0
    /\ Len(fnOut.lists.stuck) = 1

(* C6: a Job is deleted as stuck only if active > 0, succeeded = 0,        *)
(* failed = 0 and it has run for longer than cleanupStuck.stuckAfter.      *)
C6_StuckOnlyWithoutOutcome ==
    \A i \in Entries(deleteLog, "stuck") :
        LET job == jobObjs[deleteLog[i].name]
        IN  /\ job.active > 0
            /\ job.succeeded = 0
            /\ job.failed = 0
            /\ job.start # NoTime
            /\ clock - job.start[1] > cleaner.spec.cleanupStuck.stuckAfter

(* C7: two calls of excessJobs on the same group with the same retainCount *)
(* select the same Jobs.                                                   *)
C7_SameExcessOnSameInput ==
    fnPc = "again" => Names(fnOut[1]) = Names(fnOut[2])

(* C8, as claimed: in a group with a Job without a start time and a Job    *)
(* with one, for a retainCount below the size of the group, every Job      *)
(* without a start time is in the excess, and no Job with a start time is  *)
(* in the excess while one without is kept.                                *)
Unstarted(jobs) == {job \in Range(jobs) : job.start = NoTime}
Started(jobs) == {job \in Range(jobs) : job.start # NoTime}

C8_EveryUnstartedIsExcess ==
    (/\ fnPc # "ready"
     /\ Unstarted(fnIn.jobs) # {}
     /\ Started(fnIn.jobs) # {}
     /\ fnIn.retainCount < Len(fnIn.jobs)) =>
        /\ Unstarted(fnIn.jobs) \subseteq Range(fnOut[1])
        /\ (Started(fnIn.jobs) \cap Range(fnOut[1]) # {}
              => Unstarted(fnIn.jobs) \subseteq Range(fnOut[1]))

(* C8, amended: in such a group some Job without a start time is in the    *)
(* excess, all of them when retainCount is at most the number of Jobs with *)
(* a start time, and no Job with a start time is in the excess while one   *)
(* without is kept.                                                        *)
C8_UnstartedGoFirst ==
    (/\ fnPc # "ready"
     /\ Unstarted(fnIn.jobs) # {}
     /\ Started(fnIn.jobs) # {}
     /\ fnIn.retainCount < Len(fnIn.jobs)) =>
        /\ Unstarted(fnIn.jobs) \cap Range(fnOut[1]) # {}
        /\ (fnIn.retainCount <= Cardinality(Started(fnIn.jobs))
              => Unstarted(fnIn.jobs) \subseteq Range(fnOut[1]))
        /\ (Started(fnIn.jobs) \cap Range(fnOut[1]) # {}
              => Unstarted(fnIn.jobs) \subseteq Range(fnOut[1]))

(* excessJobs kept one of two Jobs with a start time and dropped the Job   *)
(* without one, listed first.                                              *)
C8_Witness ==
    /\ fnPc = "done"
    /\ Len(fnIn.jobs) = 3
    /\ fnIn.jobs[1].start = NoTime
    /\ Cardinality(Started(fnIn.jobs)) = 2
    /\ fnIn.retainCount = 1
    /\ Len(fnOut[1]) = 2

(* C10: every Job of the three slices gets its Delete call, in order,      *)
(* whatever the outcome of the calls before it, and each deleteJobs call   *)
(* returns the number of its Deletes that succeeded: the Jobs that are     *)
(* gone.                                                                   *)
C10_FailedDeleteDoesNotAbort ==
    pc = "deleted" =>
        LET doomed == eval.lists.stuck \o eval.lists.excessSucceeded
                        \o eval.lists.excessFailed
            okOf(type) == {i \in Entries(deleteLog, type) : deleteLog[i].ok}
        IN  /\ Len(deleteLog) = Len(doomed)
            /\ \A i \in 1..Len(doomed) : deleteLog[i].name = doomed[i].name
            /\ eval.counts[1] = Cardinality(okOf("stuck"))
            /\ eval.counts[2] = Cardinality(okOf("succeeded"))
            /\ eval.counts[3] = Cardinality(okOf("failed"))
            /\ deletedCount = Cardinality(Names(jobList) \ present)
            /\ \A i \in 1..Len(deleteLog) :
                 deleteLog[i].ok <=> deleteLog[i].name \notin present

(* A Delete failed and the next Delete, of another category, succeeded.    *)
C10_Witness ==
    /\ pc = "deleted"
    /\ Len(deleteLog) = 2
    /\ ~deleteLog[1].ok
    /\ deleteLog[2].ok
    /\ deleteLog[1].type # deleteLog[2].type
    /\ deletedCount = 1

(* The Jobs of the target the API server holds, by the group             *)
(* classification puts them in.                                            *)
HeldOf(class) ==
    {n \in present :
        /\ InScope(jobObjs[n], stored.spec)
        /\ IF class = "active" THEN jobObjs[n].active > 0
           ELSE IF class = "succeeded"
           THEN jobObjs[n].active = 0 /\ jobObjs[n].succeeded > 0
           ELSE /\ jobObjs[n].active = 0 /\ jobObjs[n].succeeded = 0
                /\ jobObjs[n].failed > 0}

RetentionMet ==
    /\ Cardinality(HeldOf("succeeded")) <= stored.spec.retain.successfulJobs
    /\ Cardinality(HeldOf("failed")) <= stored.spec.retain.failedJobs
    /\ stored.spec.cleanupStuck.enabled =>
         \A n \in HeldOf("active") :
            ~(/\ jobObjs[n].start # NoTime
              /\ clock - jobObjs[n].start[1] > stored.spec.cleanupStuck.stuckAfter)

(* C9: under a policy within bounds, with no Job created, the invocation   *)
(* repeated and Deletes succeeding in the end, the cluster comes to hold   *)
(* at most retain.successfulJobs succeeded and retain.failedJobs failed    *)
(* Jobs of the target and no stuck one.                                    *)
C9_RetentionIsReached == <>RetentionMet

(* The same for the policies with cleanupStuck.enabled.                    *)
C9_RetentionIsReachedWhenEnabled ==
    stored.spec.cleanupStuck.enabled => <>RetentionMet

----------------------------------------------------------------------------
(* The invocations and their status writes.                                *)

(* The last invocation has returned.                                       *)
Returned == pc = "idle" /\ result # NoResult

(* It got the policy from r.Get.                                           *)
GotPolicy == Len(apiLog) >= 1 /\ apiLog[1] = Call("Get", TRUE)

CallsOf(call) == {i \in 1..Len(apiLog) : apiLog[i].call = call}

(* The policy is outside the bounds the documentation gives.               *)
OutOfBounds(spec) ==
    \/ spec.runInterval < Second
    \/ spec.retain.successfulJobs < 0
    \/ spec.retain.failedJobs < 0
    \/ (spec.cleanupStuck.enabled /\ spec.cleanupStuck.stuckAfter < Second)

InvalidCycle == Returned /\ GotPolicy /\ OutOfBounds(cleaner.spec)

(* C11: an invocation whose policy fails validation issues no List and no  *)
(* Delete, and ends with the Ready condition False, reason InvalidSpec,    *)
(* the validation error as message: on its copy, and on the persisted      *)
(* status when the write it issues is accepted.                            *)
C11_InvalidSpecSkipsToReport ==
    InvalidCycle =>
        /\ CallsOf("List") = {}
        /\ jobList = <<>>
        /\ deleteLog = <<>>
        /\ Len(cleaner.status.ready) = 1
        /\ cleaner.status.ready[1].status = "False"
        /\ cleaner.status.ready[1].reason = "InvalidSpec"
        /\ cleaner.status.ready[1].message = validateSpec(cleaner.spec)
        /\ cleaner.status.ready[1].message # ""
        /\ Cardinality(CallsOf("Status.Update")) = 1
        /\ apiLog[Len(apiLog)].ok => stored.status = cleaner.status

(* A policy that had been within bounds, and had deleted a Job, was edited *)
(* to a runInterval below one second, and the invocation reported it.      *)
C11_Witness ==
    /\ InvalidCycle
    /\ apiLog[Len(apiLog)].ok
    /\ stored.status.jobsDeleted > 0
    /\ present # {}
    /\ stored.status.ready[1].message = "spec.runInterval must be at least 1s"

(* C12: an invocation whose policy fails validation returns a requeue     *)
(* request with a delay above zero: runInterval when that is at least one  *)
(* second, a fixed backoff otherwise.                                      *)
C12_InvalidSpecIsRequeued ==
    InvalidCycle =>
        /\ result.requeueAfter > 0
        /\ cleaner.spec.runInterval >= Second
             => result.requeueAfter = cleaner.spec.runInterval

(* C13: validateSpec rejects the policy exactly when runInterval is below *)
(* one second, or a retain count is negative, or stuck cleanup is enabled  *)
(* with stuckAfter below one second; with stuck cleanup disabled a         *)
(* stuckAfter below one second is accepted.                                *)
C13_RejectsExactlyOutOfBounds ==
    fnPc = "done" =>
        LET spec == fnIn.spec
        IN  /\ fnOut # "" <=> OutOfBounds(spec)
            /\ (/\ ~spec.cleanupStuck.enabled
                /\ spec.cleanupStuck.stuckAfter < Second
                /\ spec.runInterval >= Second
                /\ spec.retain.successfulJobs >= 0
                /\ spec.retain.failedJobs >= 0) => fnOut = ""

(* validateSpec accepted a policy with stuck cleanup disabled and a        *)
(* stuckAfter below one second.                                            *)
C13_Witness ==
    /\ fnPc = "done"
    /\ ~fnIn.spec.cleanupStuck.enabled
    /\ fnIn.spec.cleanupStuck.stuckAfter < Second
    /\ fnOut = ""

ListFailed == Returned /\ GotPolicy /\ \E i \in CallsOf("List") : ~apiLog[i].ok

(* C14: when r.List fails the invocation returns the error, and has issued *)
(* no Delete and no status write: its copy of the status is as read.       *)
C14_ListFailureAborts ==
    ListFailed =>
        /\ result.err # ""
        /\ result.requeueAfter = 0
        /\ deleteLog = <<>>
        /\ deletedCount = 0
        /\ CallsOf("Status.Update") = {}
        /\ cleaner.status.ready # NoCondition
             => cleaner.status.ready[1].status = "True"
                  \/ cleaner.status.ready[1].reason = "InvalidSpec"

(* r.List failed in the first invocation of a policy that would have       *)
(* deleted a succeeded Job: nothing has been written or deleted.           *)
C14_Witness ==
    /\ ListFailed
    /\ stored.status = NoStatus
    /\ present = JobNames
    /\ cleaner.spec.cleanupStuck.enabled
    /\ cleaner.spec.retain.successfulJobs = 0
    /\ \E n \in present : jobObjs[n].active = 0 /\ jobObjs[n].succeeded > 0

(* C15: an invocation in which an r.Status().Update failed returns an     *)
(* error.                                                                  *)
C15_FailedStatusWriteIsReturned ==
    (Returned /\ \E i \in CallsOf("Status.Update") : ~apiLog[i].ok) =>
        result.err # ""

(* The Jobs deleted since the start of the run.                            *)
Gone == JobNames \ present

(* C16: a cycle that deleted k >= 1 Jobs has left lastRunTime set and the  *)
(* persisted jobsDeleted and podsDeleted k higher, so that between cycles  *)
(* the persisted jobsDeleted is the number of Jobs deleted so far.         *)
C16_CountersFollowDeletions ==
    /\ pc = "idle" =>
         /\ stored.status.jobsDeleted = Cardinality(Gone)
         /\ stored.status.podsDeleted = Cardinality(Gone)
    /\ (Returned /\ deletedCount >= 1) =>
         /\ stored.status.lastRunTime # NoTime
         /\ stored.status.lastRunTime[1] <= clock

Counters(status) ==
    <<status.jobsDeleted, status.podsDeleted, status.lastRunTime>>

(* C17: a step that ends a cycle in which no Job was deleted (the policy   *)
(* out of bounds, r.Get or r.List failed, nothing to delete, every Delete  *)
(* failed) leaves the persisted jobsDeleted, podsDeleted and lastRunTime   *)
(* as they were.                                                           *)
C17_NoDeletionKeepsCounters ==
    [][(pc' = "idle" /\ deletedCount' = 0) =>
            Counters(stored'.status) = Counters(stored.status)]_vars

(* A cycle in which every Delete failed wrote its status, after an earlier *)
(* cycle had deleted a Job at an earlier time.                             *)
C17_Witness ==
    /\ Returned
    /\ deletedCount = 0
    /\ deleteLog # <<>>
    /\ result.err = ""
    /\ apiLog[Len(apiLog)] = Call("Status.Update", TRUE)
    /\ stored.status.jobsDeleted >= 1
    /\ stored.status.lastRunTime # NoTime
    /\ stored.status.lastRunTime[1] < clock

(* C18: the persisted jobsDeleted never decreases, whatever the cycle: one *)
(* that read a stale copy of the policy, one whose status write failed,    *)
(* one that found the policy out of bounds.                                *)
C18_JobsDeletedNeverDecreases ==
    [][stored'.status.jobsDeleted >= stored.status.jobsDeleted]_vars

(* An invocation that read a copy of the policy older than a counted       *)
(* deletion issued a status write, which was refused.                      *)
C18_Witness ==
    /\ Returned
    /\ GotPolicy
    /\ \E i \in CallsOf("Status.Update") : ~apiLog[i].ok
    /\ cleaner.resourceVersion < stored.resourceVersion
    /\ cleaner.status.jobsDeleted < stored.status.jobsDeleted

(* C19: in every persisted status podsDeleted equals jobsDeleted.          *)
C19_PodsMirrorJobs ==
    stored.status.podsDeleted = stored.status.jobsDeleted

(* Two cycles have each counted a deletion.                                *)
C19_Witness ==
    /\ pc = "idle"
    /\ stored.status.jobsDeleted = 2
    /\ stored.status.lastRunTime = <<MaxTime>>

(* The invocation passed validation and got its listing.                   *)
PassedListing == Returned /\ GotPolicy /\ \E i \in CallsOf("List") : apiLog[i].ok

AllWritesAccepted == \A i \in CallsOf("Status.Update") : apiLog[i].ok

ReadyIs(status, condStatus) ==
    Len(status.ready) = 1 /\ status.ready[1].status = condStatus

C21_CompletedCycleRequeuesAtInterval ==
    (PassedListing /\ result.err = "") =>
        /\ result.requeueAfter = cleaner.spec.runInterval
        /\ result.requeueAfter >= Second

(* A cycle of a policy with stuck cleanup disabled listed Jobs, deleted    *)
(* none and returned.                                                      *)
C21_Witness ==
    /\ PassedListing
    /\ result.err = ""
    /\ ~cleaner.spec.cleanupStuck.enabled
    /\ jobList # <<>>
    /\ deletedCount = 0
    /\ result.requeueAfter = Second

----------------------------------------------------------------------------
(* A cycle and the cycles that follow it at once: the clock stands still,  *)
(* the policy is not edited and no Job is created.                         *)

InitTwice ==
    /\ jobObjs \in Clusters(StatusShapes)
    /\ present = JobNames
    /\ stored \in {[spec |-> spec, status |-> NoStatus, resourceVersion |-> 1] :
                        spec \in ValidPolicies}
    /\ cached = stored
    /\ clock \in MaxStart..MaxTime
    /\ pc = "idle"
    /\ cleaner = ZeroCleaner
    /\ jobList = <<>>
    /\ deletedCount = 0
    /\ eval = NoEval
    /\ deleteLog = <<>>
    /\ apiLog = <<>>
    /\ result = NoResult
    /\ fnIn = <<>>
    /\ fnOut = <<>>
    /\ fnPc = "unused"
    /\ firstRun = NoRun
    /\ other = NoOther

(* A cycle has run to its end: what it left behind is noted, and whether   *)
(* every call it made succeeded.                                           *)
CycleCompleted ==
    /\ firstRun = NoRun
    /\ PassedListing
    /\ result.err = ""
    /\ firstRun' = <<[status |-> stored.status,
                      held |-> present,
                      deleted |-> deletedCount,
                      clean |-> /\ AllWritesAccepted
                                /\ \A i \in 1..Len(deleteLog) : deleteLog[i].ok]>>
    /\ UNCHANGED <<reconcileVars, fnVars, other>>

NextTwice ==
    \/ ReconcileGetFails
    \/ ReconcileListFails
    \/ ReconcileList
    \/ ReconcileDelete
    \/ ReconcileStatus
    \/ CacheSync
    \/ CycleCompleted

SpecTwice == InitTwice /\ [][NextTwice]_vars

----------------------------------------------------------------------------
(* The batches of Deletes of a cycle: two policies with stuck cleanup      *)
(* enabled, over Jobs with every combination of the three counters.        *)

BatchPolicies ==
    {Policy(0, 0, TRUE, Second, Second), Policy(1, 1, TRUE, Second, Second)}

BatchShapes ==
    {OwnedJob(a, s, f, st) :
        a \in {0, 1}, s \in {0, 1}, f \in {0, 1}, st \in {NoTime, <<0>>}}

InitBatch == InitReconcile(BatchShapes, BatchPolicies)

SpecBatch == InitBatch /\ [][NextFair]_vars

(* C23: within one invocation no Job is the target of two Delete calls:    *)
(* the stuck, excess-succeeded and excess-failed slices are pairwise       *)
(* disjoint and none holds a Job twice.                                    *)
C23_NoJobDeletedTwice ==
    LET l == eval.lists
        NoRepeat(jobs) ==
            \A i, j \in 1..Len(jobs) : i # j => jobs[i].name # jobs[j].name
    IN  /\ \A i, j \in 1..Len(deleteLog) :
             i # j => deleteLog[i].name # deleteLog[j].name
        /\ NoRepeat(l.stuck) /\ NoRepeat(l.excessSucceeded)
        /\ NoRepeat(l.excessFailed)
        /\ Names(l.stuck) \cap Names(l.excessSucceeded) = {}
        /\ Names(l.stuck) \cap Names(l.excessFailed) = {}
        /\ Names(l.excessSucceeded) \cap Names(l.excessFailed) = {}

(* A cycle deleted a Job with both active and succeeded set, once, as      *)
(* stuck, and a Job of another category.                                   *)
C23_Witness ==
    /\ pc = "deleted"
    /\ Len(deleteLog) = 2
    /\ deleteLog[1].type = "stuck"
    /\ deleteLog[2].type # "stuck"
    /\ jobObjs[deleteLog[1].name].succeeded > 0
    /\ cleaner.spec.retain.successfulJobs = 0

(* The category of a Job, from its counters.                               *)
CategoryRank(job) ==
    IF job.active > 0 THEN 1 ELSE IF job.succeeded > 0 THEN 2 ELSE 3

TypeRank(type) ==
    IF type = "stuck" THEN 1 ELSE IF type = "succeeded" THEN 2 ELSE 3

(* C24: within one invocation the Deletes are issued in sequence, those of *)
(* stuck Jobs before those of excess succeeded Jobs, and those before the  *)
(* Deletes of excess failed Jobs.                                          *)
C24_StuckThenSucceededThenFailed ==
    /\ \A i \in 1..Len(deleteLog) :
         TypeRank(deleteLog[i].type) = CategoryRank(jobObjs[deleteLog[i].name])
    /\ \A i, j \in 1..Len(deleteLog) :
         i < j => CategoryRank(jobObjs[deleteLog[i].name])
                    <= CategoryRank(jobObjs[deleteLog[j].name])

(* A cycle deleted a stuck Job and then a failed one, the succeeded Job    *)
(* being listed before the stuck one.                                      *)
C24_Witness ==
    /\ pc = "deleted"
    /\ Len(deleteLog) = 2
    /\ deleteLog[1].type = "stuck"
    /\ deleteLog[2].type \in {"succeeded", "failed"}
    /\ deleteLog[2].name < deleteLog[1].name

(* C25: of two excess Jobs of one category, the one that started earlier, *)
(* a Job without a start time counting as the oldest, is deleted first.    *)
C25_ExcessDeletedOldestFirst ==
    \A i, j \in 1..Len(deleteLog) :
        (/\ i < j
         /\ deleteLog[i].type = deleteLog[j].type
         /\ deleteLog[i].type \in {"succeeded", "failed"}) =>
            ~Newer(jobObjs[deleteLog[i].name], jobObjs[deleteLog[j].name])

----------------------------------------------------------------------------
(* Listings that lag: r.List is served from the client's cache, which may  *)
(* still hold Jobs that have been deleted.                                 *)

ReconcileListStale ==
    /\ pc = "idle"
    /\ validateSpec(cached.spec) = ""
    /\ cleaner' = cached
    /\ \E seen \in SUBSET JobNames :
         /\ present \subseteq seen
         /\ seen # present
         /\ jobList' = listJobs(seen, cached.spec.namespace)
    /\ deletedCount' = 0
    /\ deleteLog' = <<>>
    /\ apiLog' = <<Call("Get", TRUE), Call("List", TRUE)>>
    /\ eval' = NoEval
    /\ result' = NoResult
    /\ pc' = "listed"
    /\ UNCHANGED <<jobObjs, present, stored, cached, clock, fnVars, auxVars>>

StalePolicies ==
    {Policy(0, 0, TRUE, Second, Second), Policy(1, 0, TRUE, Second, Second)}

InitStale == InitReconcile(StatusShapes, StalePolicies)

NextStale ==
    \/ ReconcileGetFails
    \/ ReconcileListFails
    \/ ReconcileList
    \/ ReconcileListStale
    \/ ReconcileDelete
    \/ ReconcileStatus
    \/ CacheSync
    \/ Tick

SpecStale == InitStale /\ [][NextStale]_vars

(* C26: the Delete of a Job that is already gone is taken as a success: it *)
(* is not logged as a failed Delete.                                       *)
C26_DeleteOfGoneJobIsSuccess ==
    \A i \in 1..Len(deleteLog) :
        deleteLog[i].err = "NotFound" => deleteLog[i].ok

----------------------------------------------------------------------------
----------------------------------------------------------------------------
(* The slice expression jobs[retainCount:] is within bounds.               *)
SliceInBounds(jobs, retainCount) ==
    Len(jobs) > retainCount => retainCount \in 0..Len(jobs)

(* C29: an invocation that is about to call excessJobs, or has called it,  *)
(* passes retain counts that are not negative, so that the slice           *)
(* expression of excessJobs is within bounds for the Jobs it was given.    *)
C29_ExcessJobsRetainCountNotNegative ==
    (pc \in {"listed", "deleted"} /\ cleaner.spec.cleanupStuck.enabled) =>
        /\ cleaner.spec.retain.successfulJobs >= 0
        /\ cleaner.spec.retain.failedJobs >= 0
        /\ pc = "deleted" =>
             /\ SliceInBounds(eval.succeeded, cleaner.spec.retain.successfulJobs)
             /\ SliceInBounds(eval.failed, cleaner.spec.retain.failedJobs)

(* excessJobs has cut a slice of succeeded Jobs while the policy as the    *)
(* API server holds it asks for a negative count: the invocation read the  *)
(* policy before the edit.                                                 *)
C29_Witness ==
    /\ pc = "deleted"
    /\ cleaner.spec.cleanupStuck.enabled
    /\ Len(eval.succeeded) > cleaner.spec.retain.successfulJobs
    /\ eval.lists.excessSucceeded # <<>>
    /\ stored.spec.retain.successfulJobs < 0

----------------------------------------------------------------------------
(* Two policies with different target CronJobs in one namespace.  The      *)
(* reconciler holds no field an invocation writes, so an invocation is its *)
(* locals and the policy object it works on; `other` keeps those of the    *)
(* invocation that is not taking a step, and the two share the cluster's   *)
(* Jobs and the clock.  A Job has the owner reference of one CronJob.      *)

OtherCronJob == "cj2"

PairJob(cronJobName, a, s, f) ==
    Job(0, TargetNamespace, <<OwnerRef("CronJob", cronJobName)>>, a, s, f, <<0>>)

PairShapes ==
    {PairJob(TargetCronJob, 1, 0, 0), PairJob(TargetCronJob, 0, 1, 0),
     PairJob(OtherCronJob, 0, 1, 0)}

PairPolicy(cronJobName) ==
    [Policy(0, 0, TRUE, Second, Second) EXCEPT !.cronJobName = cronJobName]

FreshObject(spec) == [spec |-> spec, status |-> NoStatus, resourceVersion |-> 1]

(* The invocation that is taking steps, with the policy it works on.       *)
Running ==
    [stored |-> stored, cached |-> cached, pc |-> pc, cleaner |-> cleaner,
     jobList |-> jobList, deletedCount |-> deletedCount, eval |-> eval,
     deleteLog |-> deleteLog, apiLog |-> apiLog, result |-> result]

InitPair ==
    /\ jobObjs \in Clusters(PairShapes)
    /\ present = JobNames
    /\ stored = FreshObject(PairPolicy(TargetCronJob))
    /\ cached = stored
    /\ clock = MaxTime
    /\ pc = "idle"
    /\ cleaner = ZeroCleaner
    /\ jobList = <<>>
    /\ deletedCount = 0
    /\ eval = NoEval
    /\ deleteLog = <<>>
    /\ apiLog = <<>>
    /\ result = NoResult
    /\ fnIn = <<>>
    /\ fnOut = <<>>
    /\ fnPc = "unused"
    /\ firstRun = NoRun
    /\ other = [Running EXCEPT
                  !.stored = FreshObject(PairPolicy(OtherCronJob)),
                  !.cached = FreshObject(PairPolicy(OtherCronJob))]

(* The other invocation takes the next steps.                              *)
Switch ==
    /\ other # NoOther
    /\ other' = Running
    /\ stored' = other.stored
    /\ cached' = other.cached
    /\ pc' = other.pc
    /\ cleaner' = other.cleaner
    /\ jobList' = other.jobList
    /\ deletedCount' = other.deletedCount
    /\ eval' = other.eval
    /\ deleteLog' = other.deleteLog
    /\ apiLog' = other.apiLog
    /\ result' = other.result
    /\ UNCHANGED <<jobObjs, present, clock, fnVars, firstRun>>

NextPair ==
    \/ ReconcileList
    \/ ReconcileDelete
    \/ ReconcileStatus
    \/ CacheSync
    \/ Switch

SpecPair == InitPair /\ [][NextPair]_vars

(* The Jobs an invocation's Delete calls removed.                          *)
DeletedBy(inv) ==
    {inv.deleteLog[i].name : i \in {k \in 1..Len(inv.deleteLog) : inv.deleteLog[k].ok}}

(* The Jobs that are gone and belonged to the target of a policy.          *)
GoneOf(spec) == {n \in Gone : HasTargetOwner(jobObjs[n], spec)}

(* What the invocation inv did is what it would have done with the rival   *)
(* not running between its steps: its Delete calls are for Jobs of its own *)
(* target and none of the rival's, each found the Job still there, the     *)
(* slices it deleted are those the cluster as it was at its Delete calls   *)
(* gives, and its policy's counter holds no deletion of the rival's.       *)
CycleAlone(inv, rival) ==
    /\ \A i \in 1..Len(inv.deleteLog) :
         /\ HasTargetOwner(jobObjs[inv.deleteLog[i].name], inv.stored.spec)
         /\ ~HasTargetOwner(jobObjs[inv.deleteLog[i].name], rival.stored.spec)
         /\ inv.deleteLog[i].err # "NotFound"
    /\ inv.pc = "deleted" =>
         inv.eval.lists \in
            cleanupLists(inv.cleaner.spec,
                         classifyJobs(filterJobsByOwner(
                            listJobs(present \cup DeletedBy(inv),
                                     inv.cleaner.spec.namespace),
                            inv.cleaner.spec.cronJobName)),
                         clock)
    /\ inv.stored.status.jobsDeleted <= Cardinality(GoneOf(inv.stored.spec))
    /\ GoneOf(inv.stored.spec) \cap GoneOf(rival.stored.spec) = {}

====
